---- MODULE Spec2Model ----
(***************************************************************************)
(* The external scanner of tree-sitter-kukicha (scanner.c): the indent     *)
(* stack, the owed-dedent counter, the scan decision and the state codec.  *)
(*                                                                         *)
(* The lexer (TSLexer) is the text and a cursor: lookahead is the          *)
(* character under the cursor (NUL at end of input), advance moves the     *)
(* cursor one character, get_column counts the characters since the last   *)
(* line feed.  A scan that returns false leaves the cursor where the call  *)
(* started (tree-sitter rewinds the lexer); a scan that returns true       *)
(* leaves it at the end of the token.                                      *)
(***************************************************************************)
EXTENDS Integers, Sequences, FiniteSets, TLC

(***************************************************************************)
(* Bounds of the model.                                                    *)
(***************************************************************************)
\* Every text over Alphabet of at most MaxLen characters is an input.
MaxLen == 3
\* Every document of at most MaxLines content lines (IndentChoices) is one.
MaxLines == 3
\* At most MaxTokens INDENT/DEDENT results are recorded in one run.
MaxTokens == 6
\* Every buffer of at most MaxBuf bytes (ByteChoices) is handed to deserialize.
MaxBuf == 3
\* scanner.c:10 sets the capacity of the indent stack to 100.  The model is
\* checked with a small capacity, so that nesting reaches it within the
\* inputs above; every definition below reads the capacity from here.
MAX_INDENT_DEPTH == 3

(***************************************************************************)
(* Program constants.                                                      *)
(***************************************************************************)
\* uint16_t arithmetic (indent, indent_depth, pending_dedents, stack cells)
UINT16 == 65536
\* a byte of the serialization buffer
BYTE == 256
\* the width the scanner gives a horizontal tab
TAB_WIDTH == 4
\* tree_sitter/parser.h
TREE_SITTER_SERIALIZATION_BUFFER_SIZE == 1024

\* enum TokenType
INDENT == "INDENT"
DEDENT == "DEDENT"
NEWLINE == "NEWLINE"
TokenType == {INDENT, DEDENT, NEWLINE}
\* result_symbol of a call that returned false
NONE == "NONE"

\* The characters the scanner tells apart; X is any other character.
SP == " "
TAB == "\t"
LF == "\n"
CR == "\r"
HASH == "#"
X == "x"
\* lexer->lookahead at end of input
NUL == "NUL"
Alphabet == {SP, TAB, LF, CR, HASH, X}

VARIABLES
    scanner,    \* the Scanner struct: indent_stack, indent_depth, pending_dedents
    input,      \* the text being scanned (fixed during a run)
    pos,        \* the lexer's cursor: index of the lookahead character, Len(input)+1 at end of input
    tokens,     \* the INDENT/DEDENT results returned so far, in order
    capped,     \* how many INDENT results were returned at full capacity, without a push
    last,       \* the last operation: its kind, arguments, the state before it and its result
    wild,       \* what a read of indent_stack[-1], the cell before the array, yields
    buffer,     \* the bytes the last operation wrote or was handed, <<>> when it had none
    iter,       \* the line-start loop of a call in progress: its cursor and the kinds requested
    twin        \* a second scanner, live once restored from a checkpoint, and its last result

vars == <<scanner, input, pos, tokens, capped, last, wild, buffer, iter, twin>>

(***************************************************************************)
(* The lexer.                                                              *)
(***************************************************************************)
is_eof(txt, p) == p > Len(txt)

lookahead(txt, p) == IF p <= Len(txt) THEN txt[p] ELSE NUL

\* lexer->get_column: characters between the start of the line and the cursor
get_column(txt, p) ==
    LET feeds == {i \in 1..(p - 1) : txt[i] = LF}
    IN  IF feeds = {} THEN p - 1
        ELSE p - 1 - (CHOOSE i \in feeds : \A j \in feeds : j <= i)

\* where a loop of the form  while (lookahead in chars) advance  stops: the
\* first position from p on whose character is not in chars (NUL, at the end
\* of input, is in none of the sets the scanner loops over)
RunEnd(txt, p, chars) ==
    CHOOSE q \in p..(Len(txt) + 1) :
        /\ lookahead(txt, q) \notin chars
        /\ \A r \in p..(q - 1) : txt[r] \in chars

\* how many of the characters p..q-1 are c
CountOf(txt, p, q, c) == Cardinality({r \in p..(q - 1) : txt[r] = c})

(***************************************************************************)
(* create                                                                  *)
(***************************************************************************)
Create ==
    [indent_stack |-> [i \in 0..(MAX_INDENT_DEPTH - 1) |-> 0],
     indent_depth |-> 1,
     pending_dedents |-> 0]

(***************************************************************************)
(* scan                                                                    *)
(***************************************************************************)
\* what a call returns: the boolean, result_symbol, the Scanner after the
\* call, the cursor after the call, and whether an INDENT skipped its push
Result(ret, sym, sc, p, nopush) ==
    [ret |-> ret, sym |-> sym, scanner |-> sc, pos |-> p, nopush |-> nopush]

NoMatch(sc, p0) == Result(FALSE, NONE, sc, p0, FALSE)

\* faulty variant: the owed dedent is returned but not counted down
PendingDedentKept(sc, p0) ==
    Result(TRUE, DEDENT, sc, p0, FALSE)

\* the owed-dedent branch
PendingDedent(sc, p0) ==
    Result(TRUE, DEDENT, [sc EXCEPT !.pending_dedents = @ - 1], p0, FALSE)

\* faulty variant: a tab counts as one column
CountIndentTabAsOne(txt, p, indent) ==
    LET q == RunEnd(txt, p, {SP, TAB})
    IN  [indent |-> (indent + CountOf(txt, p, q, SP) + CountOf(txt, p, q, TAB)) % UINT16,
         pos |-> q]

\* the loop that counts leading whitespace: the width (one per space,
\* TAB_WIDTH per tab, in uint16_t) and the cursor after it
CountIndent(txt, p, indent) ==
    LET q == RunEnd(txt, p, {SP, TAB})
    IN  [indent |-> (indent + CountOf(txt, p, q, SP)
                            + TAB_WIDTH * CountOf(txt, p, q, TAB)) % UINT16,
         pos |-> q]

\* the start of a line's measurement: indent is declared, zero, inside the loop
MeasureLine(txt, p) == CountIndent(txt, p, 0)

\* faulty variant: a blank line's terminator is taken to be two characters long
SkipBlankPair(txt, p) ==
    IF is_eof(txt, p + 1) THEN p + 1 ELSE p + 2

\* a blank line's terminator: the cursor after it
SkipBlank(txt, p) ==
    IF lookahead(txt, p) = LF THEN p + 1
    ELSE IF lookahead(txt, p + 1) = LF THEN p + 2 ELSE p + 1

\* a comment's body, up to its terminator or the end of input
SkipCommentBody(txt, p) == RunEnd(txt, p, Alphabet \ {LF, CR})

\* faulty variant: a comment that the end of input cuts short is not skipped
SkipCommentTerminated(txt, p) ==
    LET q == SkipCommentBody(txt, p)
    IN  IF lookahead(txt, q) = LF \/ lookahead(txt, q) = CR
        THEN IF lookahead(txt, q + 1) = LF THEN q + 2 ELSE q + 1
        ELSE p

\* a comment line: the cursor after its body and terminator
SkipComment(txt, p) ==
    LET q == SkipCommentBody(txt, p)
    IN  IF lookahead(txt, q) = LF \/ lookahead(txt, q) = CR
        THEN IF lookahead(txt, q + 1) = LF THEN q + 2 ELSE q + 1
        ELSE q

\* faulty variant: the level is popped before DEDENT is known to be acceptable
EofHandlingEager(sc, p0, p, valid) ==
    IF sc.indent_depth > 1
    THEN IF DEDENT \in valid
         THEN Result(TRUE, DEDENT, [sc EXCEPT !.indent_depth = @ - 1], p, FALSE)
         ELSE NoMatch([sc EXCEPT !.indent_depth = @ - 1], p0)
    ELSE NoMatch(sc, p0)

\* faulty variant: the base level is closed at the end of input as well
EofHandlingBelowBase(sc, p0, p, valid) ==
    IF sc.indent_depth >= 1 /\ DEDENT \in valid
    THEN Result(TRUE, DEDENT, [sc EXCEPT !.indent_depth = @ - 1], p, FALSE)
    ELSE NoMatch(sc, p0)

\* end of input met at a line start
EofHandling(sc, p0, p, valid) ==
    IF sc.indent_depth > 1 /\ DEDENT \in valid
    THEN Result(TRUE, DEDENT, [sc EXCEPT !.indent_depth = @ - 1], p, FALSE)
    ELSE NoMatch(sc, p0)

\* faulty variant: one level is popped, however many are wider than the line
PopOneLevel(sc, indent) ==
    IF sc.indent_depth > 1 /\ sc.indent_stack[sc.indent_depth - 1] > indent
    THEN [sc EXCEPT !.indent_depth = @ - 1]
    ELSE sc

\* the scanner after the pop loop, for a line of width indent
RECURSIVE PopLevels(_, _)
PopLevels(sc, indent) ==
    IF sc.indent_depth > 1 /\ sc.indent_stack[sc.indent_depth - 1] > indent
    THEN PopLevels([sc EXCEPT !.indent_depth = @ - 1], indent)
    ELSE sc

\* faulty variant: every popped level is owed, the returned one too
OwedAfterAll(dedent_count) == dedent_count

\* pending_dedents after dedent_count levels were popped
OwedAfter(dedent_count) == dedent_count - 1

\* faulty variant: the push does not look at the capacity
PushIndentUnchecked(sc, indent) ==
    [sc EXCEPT !.indent_stack[sc.indent_depth] = indent,
               !.indent_depth = @ + 1]

\* the INDENT branch: push unless the stack is full
PushIndent(sc, indent) ==
    IF sc.indent_depth < MAX_INDENT_DEPTH
    THEN [sc EXCEPT !.indent_stack[sc.indent_depth] = indent,
                    !.indent_depth = @ + 1]
    ELSE sc

\* the NEWLINE check; end is the position mark_end fixed, 0 if it was not called
SkipTrailing(txt, p) == RunEnd(txt, p, {SP, TAB})

TokenEnd(end, p) == IF end # 0 THEN end ELSE p

\* the cursor after the line feed at q: a carriage return that follows it
\* is advanced over as well
AfterLineFeed(txt, q) == IF lookahead(txt, q + 1) = CR THEN q + 2 ELSE q + 1

\* faulty variant: a second carriage return is advanced over as well
AfterCarriageReturnPair(txt, q) ==
    IF lookahead(txt, q + 1) \in {LF, CR} THEN q + 2 ELSE q + 1

\* the cursor after the carriage return at q: a line feed that follows it
\* is advanced over as well
AfterCarriageReturn(txt, q) == IF lookahead(txt, q + 1) = LF THEN q + 2 ELSE q + 1

NewlineCheck(txt, sc, p0, p, end, valid) ==
    IF NEWLINE \in valid
    THEN LET q == SkipTrailing(txt, p)
         IN  IF lookahead(txt, q) = LF
             THEN Result(TRUE, NEWLINE, sc, TokenEnd(end, AfterLineFeed(txt, q)), FALSE)
             ELSE IF lookahead(txt, q) = CR
             THEN Result(TRUE, NEWLINE, sc, TokenEnd(end, AfterCarriageReturn(txt, q)), FALSE)
             ELSE IF is_eof(txt, q)
             THEN Result(TRUE, NEWLINE, sc, TokenEnd(end, q), FALSE)
             ELSE NoMatch(sc, p0)
    ELSE NoMatch(sc, p0)

\* faulty variant: a line as wide as the top opens a block
IsIndentOrEqual(indent, current_indent, valid) ==
    indent >= current_indent /\ INDENT \in valid

\* the condition of the INDENT branch
IsIndent(indent, current_indent, valid) ==
    indent > current_indent /\ INDENT \in valid

\* faulty variant: the levels are popped whether or not DEDENT is acceptable
IsDedentUnasked(indent, current_indent, valid) ==
    indent < current_indent

\* the condition of the DEDENT branch
IsDedent(indent, current_indent, valid) ==
    indent < current_indent /\ DEDENT \in valid

\* faulty variant: the line is compared with the bottom of the stack
StackBase(sc) == sc.indent_stack[0]

\* indent_stack[indent_depth - 1]; with indent_depth 0 the index is -1 and
\* the read is outside the array: it yields whatever the cell before it holds
StackTop(sc) ==
    IF sc.indent_depth >= 1 THEN sc.indent_stack[sc.indent_depth - 1] ELSE wild

\* a line with content, of width indent, whose first character is at p
ContentLine(txt, sc, p0, p, indent, valid) ==
    LET current_indent == StackTop(sc)
        popped == PopLevels(sc, indent)
        dedent_count == sc.indent_depth - popped.indent_depth
    IN  IF IsIndent(indent, current_indent, valid)
        THEN Result(TRUE, INDENT, PushIndent(sc, indent), p,
                    ~(sc.indent_depth < MAX_INDENT_DEPTH))
        ELSE IF IsDedent(indent, current_indent, valid) /\ dedent_count > 0
        THEN Result(TRUE, DEDENT,
                    [popped EXCEPT !.pending_dedents = OwedAfter(dedent_count)], p, FALSE)
        ELSE NewlineCheck(txt, sc, p0, p, p, valid)

\* the line-start loop: one iteration per line, trivia lines are skipped
RECURSIVE LineStart(_, _, _, _, _)
LineStart(txt, sc, p0, p, valid) ==
    LET m == MeasureLine(txt, p)
        q == m.pos
    IN  IF lookahead(txt, q) = LF \/ lookahead(txt, q) = CR
        THEN LineStart(txt, sc, p0, SkipBlank(txt, q), valid)
        ELSE IF lookahead(txt, q) = HASH
        THEN LineStart(txt, sc, p0, SkipComment(txt, q), valid)
        ELSE IF is_eof(txt, q)
        THEN EofHandling(sc, p0, q, valid)
        ELSE ContentLine(txt, sc, p0, q, m.indent, valid)

\* tree_sitter_kukicha_external_scanner_scan
scan(txt, sc, p0, valid) ==
    IF sc.pending_dedents > 0 /\ DEDENT \in valid
    THEN PendingDedent(sc, p0)
    ELSE LET at_line_start == (get_column(txt, p0) = 0)
         IN  IF at_line_start /\ (INDENT \in valid \/ DEDENT \in valid)
             THEN LineStart(txt, sc, p0, p0, valid)
             ELSE NewlineCheck(txt, sc, p0, p0, 0, valid)

(***************************************************************************)
(* serialize / deserialize                                                 *)
(***************************************************************************)
\* faulty variant: only the low byte of a cell is written
CellBytesLow(w) == <<w % BYTE, 0>>

\* the two bytes of one stack cell, low byte first
CellBytes(w) == <<w % BYTE, (w \div BYTE) % BYTE>>

RECURSIVE SerializeStack(_, _, _)
SerializeStack(sc, i, buf) ==
    IF i < sc.indent_depth /\ Len(buf) < TREE_SITTER_SERIALIZATION_BUFFER_SIZE
    THEN SerializeStack(sc, i + 1, buf \o CellBytes(sc.indent_stack[i]))
    ELSE buf

\* faulty variant: the depth is written before the count of owed dedents
serializeDepthFirst(sc) ==
    SerializeStack(sc, 0, <<sc.indent_depth % BYTE, sc.pending_dedents % BYTE>>)

\* tree_sitter_kukicha_external_scanner_serialize: the bytes written
\* (the returned size is their number)
serialize(sc) ==
    SerializeStack(sc, 0, <<sc.pending_dedents % BYTE, sc.indent_depth % BYTE>>)

\* faulty variant: the high byte of a cell is not read
CellValueLow(buf, at) == buf[at + 1]

\* the 16-bit value of the cell whose low byte is the C index at
CellValue(buf, at) == buf[at + 1] + BYTE * buf[at + 2]

RECURSIVE DeserializeStack(_, _, _, _)
DeserializeStack(sc, buf, i, at) ==
    IF i < sc.indent_depth /\ at + 1 < Len(buf)
    THEN DeserializeStack([sc EXCEPT !.indent_stack[i] = CellValue(buf, at)],
                          buf, i + 1, at + 2)
    ELSE sc

\* the declared depth, clamped to the capacity
ClampDepth(d) == IF d > MAX_INDENT_DEPTH THEN MAX_INDENT_DEPTH ELSE d

\* faulty variant: only the counter of owed dedents is reset
ResetOwedOnly(sc) == [sc EXCEPT !.pending_dedents = 0]

\* the three assignments deserialize starts with
ResetState(sc) ==
    [sc EXCEPT !.pending_dedents = 0,
               !.indent_depth = 1,
               !.indent_stack[0] = 0]

\* tree_sitter_kukicha_external_scanner_deserialize of the bytes buf into
\* the scanner sc
deserialize(sc, buf) ==
    LET reset == ResetState(sc)
    IN  IF Len(buf) = 0 THEN reset
        ELSE LET s1 == [reset EXCEPT !.pending_dedents = buf[1]]
             IN  IF 1 >= Len(buf) THEN s1
                 ELSE DeserializeStack([s1 EXCEPT !.indent_depth = ClampDepth(buf[2])],
                                       buf, 0, 2)

(***************************************************************************)
(* The inputs.                                                             *)
(***************************************************************************)
Strings(n) == UNION {[1..k -> Alphabet] : k \in 0..n}

\* 65 tabs: a width whose high byte is not zero
Wide == [i \in 1..65 |-> TAB]

IndentChoices == {<<>>, <<SP>>, <<TAB>>, <<TAB, SP>>}

RECURSIVE DocsOf(_, _)
DocsOf(indents, n) ==
    IF n = 0 THEN {<<>>}
    ELSE LET shorter == DocsOf(indents, n - 1)
         IN  shorter \cup {d \o ind \o <<X, LF>> : d \in shorter, ind \in indents}

\* documents with a wide line, the last one without its terminator
WideDocs == {Wide \o <<X, LF>>, Wide \o <<X, LF, X>>}

\* blank lines and comment lines, between an indented line and a next line
TriviaLines ==
    {<<LF>>, <<SP, LF>>, <<TAB, CR, LF>>, <<CR>>, <<CR, LF>>,
     <<HASH, LF>>, <<SP, HASH, X, LF>>, <<HASH, SP, CR, LF>>, <<HASH, X, CR>>}

TriviaDocs ==
    {before \o t \o after :
        before \in {<<>>, <<SP, X, LF>>},
        t \in TriviaLines,
        after \in {<<>>, <<X>>, <<SP, X>>, <<TAB, X, LF>>}}

\* two nested blocks closed by one line, a new block, and its closing line
ReopenDocs ==
    {<<SP, X, LF, TAB, X, LF, X, LF, SP, X, LF, X>> \o final : final \in {<<>>, <<LF>>}}

Docs == DocsOf(IndentChoices, MaxLines) \cup WideDocs \cup TriviaDocs \cup ReopenDocs

Inputs == Strings(MaxLen) \cup Docs

(***************************************************************************)
(* The state machine: the parser creates the scanner, then calls scan with *)
(* the kinds it accepts, consumes text itself, and checkpoints the state.  *)
(***************************************************************************)
Op(op, valid, pre, p0, ret, sym) ==
    [op |-> op, valid |-> valid, pre |-> pre, pos0 |-> p0, ret |-> ret, sym |-> sym]

\* no line-start loop is running
NoLoop == [running |-> FALSE, p |-> 0, valid |-> {}]

\* the second scanner before any checkpoint: a fresh one, no result yet
NoTwin == [live |-> FALSE, scanner |-> Create, ret |-> FALSE, sym |-> NONE, pos |-> 1]

\* the state after create, the cursor at the start of the text
Fresh ==
    /\ scanner = Create
    /\ pos = 1
    /\ tokens = <<>>
    /\ capped = 0
    /\ last = Op("create", {}, Create, 1, FALSE, NONE)
    /\ buffer = <<>>
    /\ iter = NoLoop
    /\ twin = NoTwin

Init ==
    /\ input \in Inputs
    /\ wild = 0
    /\ Fresh

\* one call of scan with the kinds valid
DoScan(valid) ==
    \E r \in {scan(input, scanner, pos, valid)} :
        /\ r.sym \in {INDENT, DEDENT} => Len(tokens) < MaxTokens
        /\ scanner' = r.scanner
        /\ pos' = r.pos
        /\ tokens' = IF r.sym \in {INDENT, DEDENT} THEN Append(tokens, r.sym) ELSE tokens
        /\ capped' = IF r.nopush THEN capped + 1 ELSE capped
        /\ last' = Op("scan", valid, scanner, pos, r.ret, r.sym)
        /\ buffer' = <<>>
        /\ UNCHANGED <<input, wild, iter, twin>>

Scan == \E valid \in SUBSET TokenType : DoScan(valid)

\* the grammar's own lexer consumes one character
Consume ==
    /\ ~is_eof(input, pos)
    /\ pos' = pos + 1
    /\ last' = Op("consume", {}, scanner, pos, FALSE, NONE)
    /\ buffer' = <<>>
    /\ UNCHANGED <<scanner, input, tokens, capped, wild, iter, twin>>

\* the parser serializes the state and restores it, into this scanner or a new one
Checkpoint ==
    \E prior \in {scanner, Create} :
        /\ buffer' = serialize(scanner)
        /\ scanner' = deserialize(prior, buffer')
        /\ last' = Op("checkpoint", {}, scanner, pos, FALSE, NONE)
        /\ UNCHANGED <<input, pos, tokens, capped, wild, iter, twin>>

Next == Scan \/ Consume \/ Checkpoint

Spec == Init /\ [][Next]_vars

(***************************************************************************)
(* A parse of a nested document: the parser requests all three kinds at    *)
(* every call; when the scanner declines, the grammar's own lexer skips    *)
(* its extras (blanks, line ends, comments) and takes one character of     *)
(* content.                                                                *)
(***************************************************************************)
Spaces(n) == [i \in 1..n |-> SP]

\* the ways to write an indentation of 4 and of 8 columns
Indent4 == {<<TAB>>, Spaces(4)}
Indent8 == {<<TAB, TAB>>, <<TAB>> \o Spaces(4), Spaces(4) \o <<TAB>>, Spaces(8)}

\* content lines of widths 0, 4, 8, 4, 0, one per line, with the terminator
\* term, a blank or comment line (or nothing) after the line at, and the last
\* line with or without its terminator
NestedDocs ==
    {  <<X>> \o term \o (IF at = 1 THEN trivia ELSE <<>>)
       \o a \o <<X>> \o term \o (IF at = 2 THEN trivia ELSE <<>>)
       \o b \o <<X>> \o term \o (IF at = 3 THEN trivia ELSE <<>>)
       \o c \o <<X>> \o term \o (IF at = 4 THEN trivia ELSE <<>>)
       \o <<X>> \o final :
         a \in Indent4, b \in Indent8, c \in Indent4,
         term \in {<<LF>>, <<CR, LF>>}, final \in {<<>>, <<LF>>},
         trivia \in {<<>>, <<LF>>, <<SP, SP, HASH, X, LF>>}, at \in 1..4 }

InitDoc ==
    /\ input \in NestedDocs
    /\ wild = 0
    /\ Fresh

Declined == last.op = "scan" /\ ~last.ret

\* the next character of content from p on, past blanks, line ends and comments
RECURSIVE NextContent(_, _)
NextContent(txt, p) ==
    LET q == RunEnd(txt, p, {SP, TAB, LF, CR})
    IN  IF lookahead(txt, q) = HASH
        THEN NextContent(txt, SkipCommentBody(txt, q))
        ELSE q

DocScan ==
    /\ ~Declined
    /\ DoScan(TokenType)

DocConsume ==
    /\ Declined
    /\ ~is_eof(input, NextContent(input, pos))
    /\ pos' = NextContent(input, pos) + 1
    /\ last' = Op("consume", {}, scanner, pos, FALSE, NONE)
    /\ buffer' = <<>>
    /\ UNCHANGED <<scanner, input, tokens, capped, wild, iter, twin>>

NextDoc == DocScan \/ DocConsume

SpecDoc == InitDoc /\ [][NextDoc]_vars

(***************************************************************************)
(* Restoring from arbitrary bytes: the parser hands deserialize a buffer   *)
(* that no serialize call need have written (empty, cut short, declaring   *)
(* any depth), into a scanner that an earlier parse has used, and goes on  *)
(* scanning.                                                               *)
(***************************************************************************)
\* byte values: zero, a small count, a count above the capacity
ByteChoices == {0, 1, MAX_INDENT_DEPTH + 1}

ByteStrings(n) == UNION {[1..k -> ByteChoices] : k \in 0..n}

\* buffers with whole entries: two levels, as many levels as the capacity
\* allows with a width above a byte, and more levels than the capacity
LongBuffers ==
    { <<1, 2, 0, 0, 4, 0>>,
      <<0, MAX_INDENT_DEPTH>> \o [i \in 1..(2 * MAX_INDENT_DEPTH) |-> (i - 1) \div 2],
      <<2, BYTE - 1>> \o [i \in 1..(2 * MAX_INDENT_DEPTH + 2) |-> IF i % 2 = 1 THEN i ELSE 0] }

Buffers == ByteStrings(MaxBuf) \cup LongBuffers

\* the values a read of the cell before the array may yield
WildValues == {0, 1, UINT16 - 1}

CodecInputs ==
    { <<>>, <<X>>, <<SP, X>>, <<SP, X, LF, X>>, <<TAB, X, LF, SP, X, LF>> }

\* the scanner after as many lines, each wider than the last, as the stack
\* has room for: widths 0, 1, 5, 9, ...
Deep ==
    [indent_stack   |-> [i \in 0..(MAX_INDENT_DEPTH - 1) |->
                            IF i = 0 THEN 0 ELSE TAB_WIDTH * (i - 1) + 1],
     indent_depth   |-> MAX_INDENT_DEPTH,
     pending_dedents |-> 0]

\* the scanner after a line of width 0 followed those: one DEDENT returned,
\* the others owed, the popped entries still in the array
Owing == [PopLevels(Deep, 0) EXCEPT !.pending_dedents = OwedAfter(MAX_INDENT_DEPTH - 1)]

\* the states of the scanner the buffer is restored into
Priors == {Create, Deep, Owing}

InitCodec ==
    /\ input \in CodecInputs
    /\ scanner \in Priors
    /\ wild = 0
    /\ pos = 1
    /\ tokens = <<>>
    /\ capped = 0
    /\ last = Op("resume", {}, scanner, 1, FALSE, NONE)
    /\ buffer = <<>>
    /\ iter = NoLoop
    /\ twin = NoTwin

\* a scan call; the stream of tokens is not kept
ScanOnly(valid) ==
    \E r \in {scan(input, scanner, pos, valid)} :
        /\ scanner' = r.scanner
        /\ pos' = r.pos
        /\ last' = Op("scan", valid, scanner, pos, r.ret, r.sym)
        /\ buffer' = <<>>
        /\ UNCHANGED <<input, tokens, capped, wild, iter, twin>>

CodecScan == \E valid \in SUBSET TokenType : ScanOnly(valid)

\* the parse resumes: deserialize of any buffer; when it leaves depth 0
\* the cell before the array, which the next scan may read, holds any value
Restore ==
    \E buf \in Buffers :
        /\ last.op = "resume"
        /\ scanner' = deserialize(scanner, buf)
        /\ buffer' = buf
        /\ last' = Op("restore", {}, scanner, pos, FALSE, NONE)
        /\ wild' \in IF scanner'.indent_depth = 0 THEN WildValues ELSE {0}
        /\ UNCHANGED <<input, pos, tokens, capped, iter, twin>>

NextCodec == CodecScan \/ Consume \/ Restore

SpecCodec == InitCodec /\ [][NextCodec]_vars

(***************************************************************************)
(* The line-start loop, one iteration a step: a call that reaches the      *)
(* loop (lines 119-121) runs it from the cursor of the call; an iteration  *)
(* skips a blank line or a comment line and goes round again, or meets     *)
(* the end of input or a content line and ends the call.                   *)
(***************************************************************************)
\* the short texts, and the texts with a blank or comment line in them
LoopInputs == Strings(MaxLen - 1) \cup TriviaDocs

InitLoop ==
    /\ input \in LoopInputs
    /\ wild = 0
    /\ Fresh

\* the conditions under which a call reaches the loop: no owed dedent to
\* return, column 0, INDENT or DEDENT requested
EntersLoop(valid) ==
    /\ ~(scanner.pending_dedents > 0 /\ DEDENT \in valid)
    /\ get_column(input, pos) = 0
    /\ INDENT \in valid \/ DEDENT \in valid

LoopEnter ==
    \E valid \in SUBSET TokenType :
        /\ ~iter.running
        /\ EntersLoop(valid)
        /\ iter' = [running |-> TRUE, p |-> pos, valid |-> valid]
        /\ UNCHANGED <<scanner, input, pos, tokens, capped, last, wild, buffer, twin>>

\* one iteration of while (true), the cursor at iter.p
LoopStep ==
    /\ iter.running
    /\ \E m \in {MeasureLine(input, iter.p)} :
           IF lookahead(input, m.pos) = LF \/ lookahead(input, m.pos) = CR
           THEN /\ iter' = [iter EXCEPT !.p = SkipBlank(input, m.pos)]
                /\ UNCHANGED <<scanner, input, pos, tokens, capped, last, wild, buffer, twin>>
           ELSE IF lookahead(input, m.pos) = HASH
           THEN /\ iter' = [iter EXCEPT !.p = SkipComment(input, m.pos)]
                /\ UNCHANGED <<scanner, input, pos, tokens, capped, last, wild, buffer, twin>>
           ELSE \E r \in {IF is_eof(input, m.pos)
                           THEN EofHandling(scanner, pos, m.pos, iter.valid)
                           ELSE ContentLine(input, scanner, pos, m.pos, m.indent, iter.valid)} :
                    /\ scanner' = r.scanner
                    /\ pos' = r.pos
                    /\ last' = Op("scan", iter.valid, scanner, pos, r.ret, r.sym)
                    /\ buffer' = <<>>
                    /\ iter' = NoLoop
                    /\ UNCHANGED <<input, tokens, capped, wild, twin>>

\* a call that does not reach the loop
LoopDirect ==
    \E valid \in SUBSET TokenType :
        /\ ~iter.running
        /\ ~EntersLoop(valid)
        /\ ScanOnly(valid)

LoopConsume ==
    /\ ~iter.running
    /\ Consume

NextLoop == LoopEnter \/ LoopStep \/ LoopDirect \/ LoopConsume

\* a call that has started goes on running
SpecLoop == InitLoop /\ [][NextLoop]_vars /\ WF_vars(LoopStep)

(***************************************************************************)
(* A parse that goes on and a parse resumed from a checkpoint, side by     *)
(* side: at any moment of the parse the state is serialized and restored   *)
(* into a second scanner, a new one or one an earlier parse has used; from *)
(* then on every call is made on both, with the same kinds, at the same    *)
(* cursor.                                                                 *)
(***************************************************************************)
\* documents that open blocks, up to the capacity, and close them
ResumeInputs ==
    DocsOf({<<>>, <<SP>>, <<TAB>>}, MaxLines) \cup WideDocs \cup ReopenDocs

InitResume ==
    /\ input \in ResumeInputs
    /\ wild = 0
    /\ Fresh

\* the checkpoint: the first scanner is left as it is
ResumeFork ==
    \E prior \in {Create, Deep} :
        /\ ~twin.live
        /\ buffer' = serialize(scanner)
        /\ twin' = [live |-> TRUE, scanner |-> deserialize(prior, buffer'),
                    ret |-> FALSE, sym |-> NONE, pos |-> pos]
        /\ last' = Op("checkpoint", {}, scanner, pos, FALSE, NONE)
        /\ UNCHANGED <<scanner, input, pos, tokens, capped, wild, iter>>

\* one call on each scanner
ResumeScan ==
    \E valid \in SUBSET TokenType :
        \E r \in {scan(input, scanner, pos, valid)} :
            \E t \in {IF twin.live THEN scan(input, twin.scanner, pos, valid) ELSE r} :
                /\ scanner' = r.scanner
                /\ pos' = r.pos
                /\ last' = Op("scan", valid, scanner, pos, r.ret, r.sym)
                /\ twin' = IF twin.live
                           THEN [live |-> TRUE, scanner |-> t.scanner,
                                 ret |-> t.ret, sym |-> t.sym, pos |-> t.pos]
                           ELSE twin
                /\ buffer' = <<>>
                /\ UNCHANGED <<input, tokens, capped, wild, iter>>

NextResume == ResumeFork \/ ResumeScan \/ Consume

SpecResume == InitResume /\ [][NextResume]_vars

(***************************************************************************)
(* Vocabulary of the properties.                                           *)
(***************************************************************************)
\* the Scan State: pending_dedents, the depth and the stack entries below it
SameState(s, t) ==
    /\ s.pending_dedents = t.pending_dedents
    /\ s.indent_depth = t.indent_depth
    /\ \A i \in 0..(s.indent_depth - 1) : s.indent_stack[i] = t.indent_stack[i]

SameStack(s, t) ==
    /\ s.indent_depth = t.indent_depth
    /\ \A i \in 0..(s.indent_depth - 1) : s.indent_stack[i] = t.indent_stack[i]

Top(sc) == sc.indent_stack[sc.indent_depth - 1]

CountTokens(kind) == Cardinality({i \in 1..Len(tokens) : tokens[i] = kind})

LastScan == last.op = "scan"

\* the last call started at column 0
AtColumn0 == get_column(input, last.pos0) = 0

\* the last call started at the end of input
AtEof == is_eof(input, last.pos0)

\* the line at p has content: after its leading blanks comes a character
\* that is no terminator, no '#' and not the end of input
ContentLineAt(txt, p) ==
    lookahead(txt, MeasureLine(txt, p).pos) \notin {LF, CR, HASH, NUL}

WidthAt(txt, p) == MeasureLine(txt, p).indent

\* the last call reached the line-start analysis
LineStartAnalysis ==
    /\ LastScan
    /\ AtColumn0
    /\ INDENT \in last.valid \/ DEDENT \in last.valid
    /\ ~(last.pre.pending_dedents > 0 /\ DEDENT \in last.valid)

\* the last call started at column 0 of a content line
AtContentLine == LastScan /\ AtColumn0 /\ ContentLineAt(input, last.pos0)

\* the line at p is blank or a comment and ends in a terminator (LF, CR or CR LF)
TerminatorEnd(txt, q) ==
    IF lookahead(txt, q) = CR /\ lookahead(txt, q + 1) = LF THEN q + 2 ELSE q + 1

TriviaBodyEnd(txt, p) ==
    LET q == RunEnd(txt, p, {SP, TAB})
    IN  IF lookahead(txt, q) = HASH THEN RunEnd(txt, q, Alphabet \ {LF, CR}) ELSE q

TriviaLineAt(txt, p) ==
    LET q == RunEnd(txt, p, {SP, TAB})
    IN  /\ lookahead(txt, q) \in {LF, CR, HASH}
        /\ lookahead(txt, TriviaBodyEnd(txt, p)) \in {LF, CR}

\* the text without the characters p..q-1
Without(txt, p, q) == SubSeq(txt, 1, p - 1) \o SubSeq(txt, q, Len(txt))

WithoutTriviaLine(txt, p) == Without(txt, p, TerminatorEnd(txt, TriviaBodyEnd(txt, p)))

(***************************************************************************)
(* C1: a scan that returns no match leaves the Scan State (depth, the      *)
(* stack entries below depth, pending_dedents) as it was before the call.  *)
(***************************************************************************)
C1_NoMatchKeepsState ==
    (LastScan /\ ~last.ret) => SameState(scanner, last.pre)

\* a declined call that ran the line-start analysis with open blocks
C1_Witness ==
    /\ LineStartAnalysis
    /\ ~last.ret
    /\ last.pre.indent_depth > 1
    /\ DEDENT \notin last.valid

(***************************************************************************)
(* C2 as stated: pending_dedents is strictly less than the current depth   *)
(* in every reachable state.                                               *)
(***************************************************************************)
C2_PendingBelowDepth == scanner.pending_dedents < scanner.indent_depth

(***************************************************************************)
(* C2 amended: pending_dedents is strictly less than MAX_INDENT_DEPTH - 1  *)
(* in every reachable state, and right after a scan that pops k >= 1       *)
(* levels it is k - 1, strictly less than the depth before that scan.      *)
(***************************************************************************)
C2_PendingBelowDepthBefore ==
    /\ scanner.pending_dedents < MAX_INDENT_DEPTH - 1
    /\ (LastScan /\ scanner.indent_depth < last.pre.indent_depth)
           => /\ scanner.pending_dedents
                     = last.pre.indent_depth - scanner.indent_depth - 1
              /\ scanner.pending_dedents < last.pre.indent_depth

\* a scan popped two levels for one line
C2_Witness ==
    /\ LastScan
    /\ AtContentLine
    /\ last.pre.indent_depth - scanner.indent_depth = 2
    /\ scanner.pending_dedents = 1

(***************************************************************************)
(* C3: 1 <= depth <= MAX_INDENT_DEPTH, entry 0 of the stack is 0 and each  *)
(* entry below depth is strictly greater than the entry beneath it.        *)
(***************************************************************************)
C3_StackInvariant ==
    /\ 1 <= scanner.indent_depth
    /\ scanner.indent_depth <= MAX_INDENT_DEPTH
    /\ scanner.indent_stack[0] = 0
    /\ \A i \in 1..(scanner.indent_depth - 1) :
           scanner.indent_stack[i] > scanner.indent_stack[i - 1]

\* the stack is full and an INDENT was returned without a push
C3_Witness ==
    /\ LastScan
    /\ last.sym = INDENT
    /\ last.pre.indent_depth = MAX_INDENT_DEPTH
    /\ scanner.indent_depth = MAX_INDENT_DEPTH

(***************************************************************************)
(* C4 as stated: at end of input, once the engine is back at depth 1 (and  *)
(* owes no dedent), as many INDENT as DEDENT tokens were returned over the *)
(* run, also when nesting reached the maximum depth.                       *)
(***************************************************************************)
C4_Balanced ==
    (is_eof(input, pos) /\ scanner.indent_depth = 1
                        /\ scanner.pending_dedents = 0)
        => CountTokens(INDENT) = CountTokens(DEDENT)

(***************************************************************************)
(* C4 amended: at end of input and depth 1, the INDENT tokens returned are *)
(* as many as the DEDENT tokens returned plus the dedents still owed       *)
(* (pending_dedents) plus the INDENT tokens returned at full capacity      *)
(* without a push.                                                         *)
(***************************************************************************)
C4_BalancedUpToOwedAndCapped ==
    (is_eof(input, pos) /\ scanner.indent_depth = 1)
        => CountTokens(INDENT)
               = CountTokens(DEDENT) + scanner.pending_dedents + capped

\* a run that pushed, hit the capacity and came back to depth 1 at the end
C4_Witness ==
    /\ is_eof(input, pos)
    /\ scanner.indent_depth = 1
    /\ capped > 0
    /\ CountTokens(DEDENT) >= MAX_INDENT_DEPTH - 1

(***************************************************************************)
(* C5: deserialize of the bytes serialize produced yields the state that   *)
(* was serialized: same pending_dedents, depth and entries below depth.    *)
(***************************************************************************)
C5_RoundTrip ==
    last.op = "checkpoint" => SameState(scanner, last.pre)

\* a checkpoint of a state with an entry that needs both bytes
C5_Witness ==
    /\ last.op = "checkpoint"
    /\ last.pre.indent_depth > 1
    /\ Top(last.pre) >= BYTE
    /\ Top(last.pre) % BYTE # 0

(***************************************************************************)
(* C6: at end of input with depth d > 1, a scan that requests DEDENT alone *)
(* returns DEDENT and takes the depth to d - 1 (so that repeated calls     *)
(* return DEDENT exactly d - 1 times), whatever the column and whatever    *)
(* pending_dedents.                                                        *)
(***************************************************************************)
C6_EofDedents ==
    (LastScan /\ AtEof /\ last.valid = {DEDENT} /\ last.pre.indent_depth > 1)
        => /\ last.ret
           /\ last.sym = DEDENT
           /\ scanner.indent_depth = last.pre.indent_depth - 1

(***************************************************************************)
(* C7: at column 0 of a content line narrower than the stack top, a scan   *)
(* that does not request DEDENT returns no match and the serialized state  *)
(* after the call is the serialized state before it.                       *)
(***************************************************************************)
C7_DecreaseWithoutDedent ==
    (AtContentLine /\ WidthAt(input, last.pos0) < Top(last.pre)
                   /\ DEDENT \notin last.valid)
        => /\ ~last.ret
           /\ serialize(scanner) = serialize(last.pre)

\* such a call, with both other kinds requested
C7_Witness ==
    /\ AtContentLine
    /\ WidthAt(input, last.pos0) < Top(last.pre)
    /\ last.valid = {INDENT, NEWLINE}

(***************************************************************************)
(* C8 as stated: at column 0 of a content line as wide as the stack top, a *)
(* scan returns neither INDENT nor DEDENT, whatever is requested, and      *)
(* leaves the stack unchanged.                                             *)
(***************************************************************************)
C8_EqualWidthNoToken ==
    (AtContentLine /\ WidthAt(input, last.pos0) = Top(last.pre))
        => /\ last.sym \notin {INDENT, DEDENT}
           /\ SameStack(scanner, last.pre)

(***************************************************************************)
(* C8 amended: at column 0 of a content line as wide as the stack top, a   *)
(* scan never returns INDENT and leaves the depth and the stack unchanged; *)
(* it returns DEDENT only as an owed dedent (pending_dedents > 0 and       *)
(* DEDENT requested, pending_dedents counted down by one); with            *)
(* pending_dedents = 0 it returns no match, whatever is requested.         *)
(***************************************************************************)
C8_EqualWidthOnlyOwedDedent ==
    (AtContentLine /\ WidthAt(input, last.pos0) = Top(last.pre))
        => /\ last.sym # INDENT
           /\ SameStack(scanner, last.pre)
           /\ last.sym = DEDENT
                 => /\ last.pre.pending_dedents > 0
                    /\ DEDENT \in last.valid
                    /\ scanner.pending_dedents = last.pre.pending_dedents - 1
           /\ last.pre.pending_dedents = 0
                 => (~last.ret /\ SameState(scanner, last.pre))

\* such a call inside a block, nothing owed, every kind requested
C8_Witness ==
    /\ AtContentLine
    /\ WidthAt(input, last.pos0) = Top(last.pre)
    /\ last.pre.indent_depth > 1
    /\ last.pre.pending_dedents = 0
    /\ last.valid = TokenType

(***************************************************************************)
(* C9: a blank line or a comment line met by the line-start analysis is    *)
(* trivia: the call returns what it returns on the text without that line  *)
(* (the same result, the same kind, the same Scan State), and it does not  *)
(* return NEWLINE.                                                         *)
(***************************************************************************)
C9_TriviaLine ==
    (LineStartAnalysis /\ TriviaLineAt(input, last.pos0))
        => /\ last.sym # NEWLINE
           /\ \E r \in {scan(WithoutTriviaLine(input, last.pos0),
                             last.pre, last.pos0, last.valid)} :
                  /\ r.ret = last.ret
                  /\ r.sym = last.sym
                  /\ r.scanner = scanner

\* a call that skipped an indented blank line or comment and returned a token
C9_Witness ==
    /\ LineStartAnalysis
    /\ TriviaLineAt(input, last.pos0)
    /\ WidthAt(input, last.pos0) > 0
    /\ last.sym \in {INDENT, DEDENT}

(***************************************************************************)
(* C10: scanning from a fresh state a document whose content lines have    *)
(* the widths 0, 4, 8, 4, 0, with all three kinds requested at each call,  *)
(* returns INDENT, INDENT, DEDENT, DEDENT (NEWLINE aside) and ends at      *)
(* depth 1 with nothing owed.                                              *)
(***************************************************************************)
NestedStream == <<INDENT, INDENT, DEDENT, DEDENT>>

C10_NestedDocument ==
    /\ Len(tokens) <= Len(NestedStream)
    /\ tokens = SubSeq(NestedStream, 1, Len(tokens))
    /\ is_eof(input, pos)
          => /\ tokens = NestedStream
             /\ scanner.indent_depth = 1
             /\ scanner.pending_dedents = 0

\* the parse reached the end of the document and the scanner was called there
C10_Witness ==
    /\ is_eof(input, pos)
    /\ LastScan
    /\ AtEof
    /\ tokens = NestedStream

(***************************************************************************)
(* C11: after deserialize of any buffer the depth is between 1 and         *)
(* MAX_INDENT_DEPTH, and a later scan call that reaches a content line     *)
(* reads the top of the stack at an index between 0 and                    *)
(* MAX_INDENT_DEPTH - 1.                                                   *)
(***************************************************************************)
LastRestore == last.op = "restore"

C11_RestoreLeavesValidDepth ==
    /\ LastRestore =>
          /\ scanner.indent_depth >= 1
          /\ scanner.indent_depth <= MAX_INDENT_DEPTH
    /\ (LineStartAnalysis /\ AtContentLine) =>
          last.pre.indent_depth - 1 \in 0..(MAX_INDENT_DEPTH - 1)

(***************************************************************************)
(* C12: deserialize of an empty buffer leaves the fresh state (nothing     *)
(* owed, depth 1, entry 0 zero) whatever the state before; deserialize of  *)
(* a one-byte buffer leaves that byte as pending_dedents, depth 1 and      *)
(* entry 0 zero.                                                           *)
(***************************************************************************)
C12_ShortBuffers ==
    /\ (LastRestore /\ Len(buffer) = 0) =>
          /\ scanner.pending_dedents = 0
          /\ scanner.indent_depth = 1
          /\ scanner.indent_stack[0] = 0
    /\ (LastRestore /\ Len(buffer) = 1) =>
          /\ scanner.pending_dedents = buffer[1]
          /\ scanner.indent_depth = 1
          /\ scanner.indent_stack[0] = 0

\* a byte above the capacity was restored into a scanner at its full depth
C12_Witness ==
    /\ LastRestore
    /\ Len(buffer) = 1
    /\ buffer[1] > MAX_INDENT_DEPTH
    /\ last.pre.indent_depth = MAX_INDENT_DEPTH

(***************************************************************************)
(* C13: serialize writes exactly 2 + 2 * depth bytes: pending_dedents,     *)
(* the depth, then the entries 0..depth-1 in order, each as a 16-bit       *)
(* little-endian value; their number is at most the size of the buffer.    *)
(***************************************************************************)
LastCheckpoint == last.op = "checkpoint"

C13_SerializeLayout ==
    LastCheckpoint =>
        /\ Len(buffer) = 2 + 2 * last.pre.indent_depth
        /\ Len(buffer) <= TREE_SITTER_SERIALIZATION_BUFFER_SIZE
        /\ \A k \in 1..Len(buffer) : buffer[k] \in 0..(BYTE - 1)
        /\ buffer[1] = last.pre.pending_dedents
        /\ buffer[2] = last.pre.indent_depth
        /\ \A i \in 0..(last.pre.indent_depth - 1) :
              buffer[3 + 2 * i] + BYTE * buffer[4 + 2 * i] = last.pre.indent_stack[i]

\* a state with a width above a byte on the stack was serialized
C13_Witness ==
    /\ LastCheckpoint
    /\ last.pre.indent_depth > 1
    /\ \E i \in 0..(last.pre.indent_depth - 1) : last.pre.indent_stack[i] >= BYTE

(***************************************************************************)
(* C14: a call at a content line narrower than the top of the stack, with  *)
(* DEDENT requested, pops exactly the N >= 1 levels wider than the line,   *)
(* returns DEDENT and owes N - 1; every call with DEDENT requested while   *)
(* dedents are owed returns DEDENT, takes one off the count, keeps the     *)
(* stack and the cursor and does not depend on the input.  So the line     *)
(* gives N DEDENTs in N calls and nothing is owed after them.              *)
(***************************************************************************)
\* the levels of sc above the base that are wider than w
WiderLevels(sc, w) == {i \in 1..(sc.indent_depth - 1) : sc.indent_stack[i] > w}

\* the last call started at column 0 of a content line narrower than the
\* top of the stack, with DEDENT requested
AtNarrowerLine ==
    /\ AtContentLine
    /\ DEDENT \in last.valid
    /\ WidthAt(input, last.pos0) < Top(last.pre)

PopsWiderLevels ==
    LET N == Cardinality(WiderLevels(last.pre, WidthAt(input, last.pos0)))
    IN  /\ N >= 1
        /\ last.ret
        /\ last.sym = DEDENT
        /\ scanner.indent_depth = last.pre.indent_depth - N
        /\ WiderLevels(scanner, WidthAt(input, last.pos0)) = {}
        /\ \A i \in 0..(scanner.indent_depth - 1) :
              scanner.indent_stack[i] = last.pre.indent_stack[i]
        /\ scanner.pending_dedents = N - 1

\* a call with DEDENT requested while dedents are owed
OwedDedentReturned ==
    (LastScan /\ last.pre.pending_dedents > 0 /\ DEDENT \in last.valid) =>
        /\ last.ret
        /\ last.sym = DEDENT
        /\ scanner.pending_dedents = last.pre.pending_dedents - 1
        /\ SameStack(scanner, last.pre)
        /\ pos = last.pos0
        /\ \A txt \in {<<>>, <<X>>, <<TAB, X, LF>>} :
              scan(txt, last.pre, 1, last.valid).scanner = scanner

\* as claimed: whatever is owed when the call starts
C14_DecreasePopsAtOnce ==
    /\ AtNarrowerLine => PopsWiderLevels
    /\ OwedDedentReturned

\* with nothing owed when the call at the narrower line starts
C14_DecreasePopsWhenNothingOwed ==
    /\ (AtNarrowerLine /\ last.pre.pending_dedents = 0) => PopsWiderLevels
    /\ OwedDedentReturned

\* the last of the N = 2 DEDENTs of one line was returned
C14_Witness ==
    /\ LastScan
    /\ last.pre.pending_dedents = 1
    /\ scanner.pending_dedents = 0
    /\ last.sym = DEDENT
    /\ Len(tokens) >= 2
    /\ tokens[Len(tokens) - 1] = DEDENT

(***************************************************************************)
(* C15: whenever scan returns INDENT, the depth has grown by one, the new  *)
(* top is the measured width of the content line, that width is above the  *)
(* old top, and pending_dedents and the entries below are unchanged.       *)
(***************************************************************************)
\* the width of the blanks that end right before p: the leading blanks of
\* the line whose content starts at p
WidthBefore(txt, p) ==
    LET s == CHOOSE s \in 1..p :
                 /\ \A k \in s..(p - 1) : txt[k] \in {SP, TAB}
                 /\ s = 1 \/ txt[s - 1] \notin {SP, TAB}
    IN  (CountOf(txt, s, p, SP) + TAB_WIDTH * CountOf(txt, s, p, TAB)) % UINT16

ReturnedIndent == LastScan /\ last.ret /\ last.sym = INDENT

\* what every INDENT keeps: the width is above the old top, the count of
\* owed dedents and the entries below the old depth are unchanged
IndentKeeps ==
    /\ WidthBefore(input, pos) > Top(last.pre)
    /\ scanner.pending_dedents = last.pre.pending_dedents
    /\ \A i \in 0..(last.pre.indent_depth - 1) :
          scanner.indent_stack[i] = last.pre.indent_stack[i]

IndentPushed ==
    /\ scanner.indent_depth = last.pre.indent_depth + 1
    /\ Top(scanner) = WidthBefore(input, pos)

\* as claimed: at every depth
C15_IndentPushes ==
    ReturnedIndent => (IndentKeeps /\ IndentPushed)

\* below the capacity the level is pushed; at the capacity INDENT is
\* returned and the state is unchanged
C15_IndentPushesBelowCapacity ==
    ReturnedIndent =>
        /\ IndentKeeps
        /\ IF last.pre.indent_depth < MAX_INDENT_DEPTH
           THEN IndentPushed
           ELSE scanner = last.pre

\* INDENT for the line that fills the last slot of the stack
C15_Witness ==
    /\ ReturnedIndent
    /\ last.pre.indent_depth = MAX_INDENT_DEPTH - 1
    /\ scanner.indent_depth = MAX_INDENT_DEPTH
    /\ Top(scanner) > Top(last.pre)

(***************************************************************************)
(* C16: whenever scan returns NEWLINE and the cursor, past the trailing    *)
(* blanks, is not at the end of input, the characters of the token are     *)
(* exactly one terminator: LF, CR, or CR LF, and nothing else.             *)
(***************************************************************************)
ReturnedNewline == LastScan /\ last.ret /\ last.sym = NEWLINE

\* where the token of the last call starts: past the blanks the call skipped
NewlineStart == RunEnd(input, last.pos0, {SP, TAB})

\* the characters of the token of the last call
NewlineToken == SubSeq(input, NewlineStart, pos - 1)

\* as claimed: one of the three terminators
C16_NewlineIsOneTerminator ==
    (ReturnedNewline /\ ~is_eof(input, NewlineStart)) =>
        NewlineToken \in {<<LF>>, <<CR>>, <<CR, LF>>}

\* the three terminators, or a line feed with the carriage return after it
C16_NewlineIsOneTerminatorOrLfCr ==
    (ReturnedNewline /\ ~is_eof(input, NewlineStart)) =>
        NewlineToken \in {<<LF>>, <<CR>>, <<CR, LF>>, <<LF, CR>>}

\* NEWLINE for a CR LF after a trailing blank, more text behind it
C16_Witness ==
    /\ ReturnedNewline
    /\ NewlineStart > last.pos0
    /\ NewlineToken = <<CR, LF>>
    /\ ~is_eof(input, pos)

(***************************************************************************)
(* C17: with the cursor at the end of input and depth 1, every scan call   *)
(* whose kinds are among INDENT and DEDENT returns no match, whatever      *)
(* pending_dedents is.                                                     *)
(***************************************************************************)
\* the last call started at the end of input, at depth 1, with no kind
\* requested but INDENT and DEDENT
AtEofAtBase ==
    /\ LastScan
    /\ AtEof
    /\ last.pre.indent_depth = 1
    /\ last.valid \subseteq {INDENT, DEDENT}

\* as claimed: no match, dedents owed or not
C17_EofBaseDeclines ==
    AtEofAtBase => (~last.ret /\ scanner = last.pre)

\* the owed dedents are returned first, one a call; with nothing owed, or
\* DEDENT not requested, the call declines and nothing changes
C17_EofBaseDeclinesOnceNothingOwed ==
    AtEofAtBase =>
        /\ scanner.indent_depth = 1
        /\ pos = last.pos0
        /\ IF last.pre.pending_dedents > 0 /\ DEDENT \in last.valid
           THEN /\ last.ret
                /\ last.sym = DEDENT
                /\ scanner.pending_dedents = last.pre.pending_dedents - 1
           ELSE /\ ~last.ret
                /\ scanner = last.pre

\* a call at the end of a text whose blocks were closed, both kinds
\* requested, at column 0
C17_Witness ==
    /\ AtEofAtBase
    /\ AtColumn0
    /\ last.valid = {INDENT, DEDENT}
    /\ last.pre.pending_dedents = 0
    /\ ~last.ret
    /\ CountTokens(DEDENT) > 0

(***************************************************************************)
(* C18: every scan call terminates: an iteration of the line-start loop    *)
(* that goes round again has moved the cursor forward by at least one      *)
(* character, within the text; the loop ends only at the end of input or   *)
(* at a content line; and a call that runs the loop ends.                  *)
(***************************************************************************)
\* a call run iteration by iteration gives what scan gives
LoopAgreesWithScan ==
    LastScan =>
        LET r == scan(input, last.pre, last.pos0, last.valid)
        IN  /\ r.ret = last.ret
            /\ r.sym = last.sym
            /\ r.scanner = scanner
            /\ r.pos = pos

IterationAdvances ==
    (iter.running /\ iter'.running) =>
        /\ iter'.p > iter.p
        /\ iter'.p <= Len(input) + 1

LoopEndsAtEofOrContent ==
    (iter.running /\ ~iter'.running) =>
        lookahead(input, RunEnd(input, iter.p, {SP, TAB})) \notin {LF, CR, HASH}

C18_LoopTerminates ==
    /\ [][IterationAdvances]_vars
    /\ [][LoopEndsAtEofOrContent]_vars
    /\ (iter.running ~> ~iter.running)

\* the loop has skipped a line and is at a content line
C18_Witness ==
    /\ iter.running
    /\ iter.p > pos
    /\ ContentLineAt(input, iter.p)

(***************************************************************************)
(* C19: a scanner restored from the serialized state gives, call after     *)
(* call, the results of the scanner that was never stopped (match or not,  *)
(* the kind, the cursor) and goes through the same Scan States.            *)
(***************************************************************************)
C19_ResumeEqualsContinue ==
    twin.live =>
        /\ SameState(twin.scanner, scanner)
        /\ LastScan =>
              /\ twin.ret = last.ret
              /\ twin.sym = last.sym
              /\ twin.pos = pos

\* resumed with a dedent owed and a stale scanner: the owed DEDENT came from both
C19_Witness ==
    /\ twin.live
    /\ LastScan
    /\ last.pre.pending_dedents > 0
    /\ last.sym = DEDENT
    /\ twin.sym = DEDENT
    /\ twin.scanner # scanner

(***************************************************************************)
(* C20: the Scan State after deserialize is a function of the buffer       *)
(* alone: whatever state the scanner was in before, the same buffer        *)
(* leaves the same pending_dedents, the same depth and the same entries    *)
(* below the depth.                                                        *)
(***************************************************************************)
C20_RestoreDependsOnBufferOnly ==
    LastRestore =>
        \A prior \in Priors : SameState(scanner, deserialize(prior, buffer))

====
